---- MODULE Spec2Model ----
(***************************************************************************)
(* A model of twistedActor's DeviceSet (the slot registry), RunCmdDict     *)
(* (the dispatch run behind startCmd / startCmdDict) and the bulk          *)
(* connect / disconnect / replaceDev operations of                         *)
(* src/python/twistedActor/deviceSet.py.                                   *)
(*                                                                         *)
(* The event loop is single-threaded: every public call and every          *)
(* completion callback runs to its end before the next event, so each is   *)
(* one action.  A callback that fires synchronously inside a call (a       *)
(* command handle that is already terminal when addCallback is called) is  *)
(* part of the calling action.                                             *)
(***************************************************************************)
EXTENDS Integers, Sequences, FiniteSets, TLC

VARIABLES
    slotDevDict,      \* DeviceSet._slotDevDict: ordered (slot, dev) pairs
    slotIndexDict,    \* DeviceSet._slotIndexDict: slot -> index
    devNameSlotDict,  \* DeviceSet._devNameSlotDict: dev.name -> slot
    rcd,              \* the RunCmdDict objects created so far
    links,            \* the connect / disconnect operations started so far
    repl,             \* the replaceDev(slot, dev) operations started so far
    devLog,           \* every call made on a device or device hook and every
                      \* store of a new device by replaceDev, in order
    toUsers,          \* every actor.writeToUsers call, in order
    lastOp,           \* the public call or callback that ran last
    callsLeft,        \* how many more public calls the scenario makes
    aw                \* the ActorWrapper object of the wrapper scenario

vars == <<slotDevDict, slotIndexDict, devNameSlotDict, rcd, links,
          repl, devLog, toUsers, lastOp, callsLeft, aw>>

(***************************************************************************)
(* Bounds of the model.                                                    *)
(***************************************************************************)
MaxKeys == 2          \* longest cmdDict / slotList a call is given
MaxRepl == 2          \* replaceDev calls in a registry scenario

DefaultTimeLim == 5

NoDev == "None"       \* Python's None in a device position
UnknownSlot == "x"    \* a slot name no registry of the model holds

(***************************************************************************)
(* Small helpers on finite maps and sequences.                             *)
(***************************************************************************)
SetKey(f, k, v) == [x \in (DOMAIN f) \cup {k} |-> IF x = k THEN v ELSE f[x]]

EmptyMap == [x \in {} |-> 0]

Range(s) == {s[i] : i \in DOMAIN s}

NoDupSeqs(S, n) ==
    {s \in UNION {[1..k -> S] : k \in 0..n} :
        \A i, j \in DOMAIN s : i # j => s[i] # s[j]}

Perms(S) == {s \in [1..Cardinality(S) -> S] :
                \A i, j \in DOMAIN s : i # j => s[i] # s[j]}

\* the items of a dict / set of slot names, iterated in the order its keys
\* hash to: the members of S as they follow each other in order
IterOrder(order, S) == SelectSeq(order, LAMBDA s : s \in S)

(***************************************************************************)
(* Command handles (twistedActor.command, consumed): a handle is Ready or  *)
(* Running until it becomes Done or Failed; a callback added to a handle   *)
(* fires once, when the handle is terminal, at once if it already is.      *)
(***************************************************************************)
CmdStates == {"running", "done", "failed"}

IsDone(st) == st \in {"done", "failed"}

DidFail(st) == st = "failed"

\* expandUserCmd(None): a new user command, not done
NewUserCmd == [state |-> "ready", msg |-> <<>>, nSet |-> 0]

\* UserCmd.setState: a terminal command keeps its state; nSet counts calls
SetState(cmd, newState, msg) ==
    IF IsDone(cmd.state)
    THEN [cmd EXCEPT !.nSet = @ + 1]
    ELSE [state |-> newState, msg |-> msg, nSet |-> cmd.nSet + 1]

(***************************************************************************)
(* The slot registry.                                                      *)
(***************************************************************************)
slotList == [i \in DOMAIN slotDevDict |-> slotDevDict[i].slot]

devList == [i \in DOMAIN slotDevDict |-> slotDevDict[i].dev]

\* "slot in d" for an ordered dict d of (slot, dev) pairs
InDict(d, slot) == \E i \in DOMAIN d : d[i].slot = slot

\* d[slot], "KeyError" for no such key
Lookup(d, slot) ==
    IF InDict(d, slot)
    THEN d[CHOOSE i \in DOMAIN d : d[i].slot = slot].dev
    ELSE "KeyError"

HasSlot(slot) == InDict(slotDevDict, slot)

\* DeviceSet.__getitem__: the device in the slot, "KeyError" for no such slot
GetItem(slot) == Lookup(slotDevDict, slot)

\* the keys of d whose device is not None, in d's order
FilledOf(d) ==
    LET filled == SelectSeq(d, LAMBDA e : e.dev # NoDev)
    IN [i \in DOMAIN filled |-> filled[i].slot]

filledSlotList == FilledOf(slotDevDict)

\* DeviceSet.getIndex: the 0-based index of the slot, "KeyError" for no such slot
getIndex(slot) ==
    IF slot \in DOMAIN slotIndexDict THEN slotIndexDict[slot] ELSE "KeyError"

\* DeviceSet.slotFromIndex for an index from 0: the index-th key of the dict
slotFromIndex(index) ==
    IF index + 1 \in DOMAIN slotList THEN slotList[index + 1] ELSE "IndexError"

\* a store that deletes the key and inserts it again, at the end
SetItem_MoveToEnd(d, slot, dev) ==
    Append(SelectSeq(d, LAMBDA e : e.slot # slot), [slot |-> slot, dev |-> dev])

\* OrderedDict.__setitem__ on an existing key: the position is kept
SetItem(d, slot, dev) ==
    [i \in DOMAIN d |-> IF d[i].slot = slot THEN [slot |-> slot, dev |-> dev] ELSE d[i]]

\* OrderedDict(izip(slotList, devList)): a repeated key keeps its first place
\* and takes the last value
RECURSIVE OrderedDict(_, _)
OrderedDict(sl, dl) ==
    IF Len(sl) = 0 \/ Len(dl) = 0 THEN <<>>
    ELSE LET n == IF Len(sl) < Len(dl) THEN Len(sl) ELSE Len(dl)
             d == OrderedDict(SubSeq(sl, 1, n - 1), SubSeq(dl, 1, n - 1))
         IN IF \E i \in DOMAIN d : d[i].slot = sl[n]
            THEN SetItem(d, sl[n], dl[n])
            ELSE Append(d, [slot |-> sl[n], dev |-> dl[n]])

\* __init__ without the test of len(self._slotDevDict) against len(slotList)
Construct_NoUniqueCheck(sl, dl) ==
    LET d == OrderedDict(sl, dl)
        filled == SelectSeq(d, LAMBDA e : e.dev # NoDev)
    IN IF Len(sl) # Len(dl)
       THEN [exc |-> "RuntimeError", why |-> "length", devLog |-> <<>>]
       ELSE [exc |-> "",
             slotDevDict |-> d,
             slotIndexDict |-> [s \in Range(sl) |->
                 (CHOOSE i \in DOMAIN sl : sl[i] = s /\ \A j \in DOMAIN sl : sl[j] = s => j <= i) - 1],
             devNameSlotDict |-> [n \in {filled[i].dev : i \in DOMAIN filled} |->
                 LET i == CHOOSE i \in DOMAIN filled : filled[i].dev = n /\
                              \A j \in DOMAIN filled : filled[j].dev = n => j <= i
                 IN filled[i].slot],
             devLog |-> [i \in DOMAIN filled |-> [dev |-> filled[i].dev, op |-> "_addDevCallbacks"]]]

\* DeviceSet.__init__; devLog holds the hook calls made, also when it raises
Construct(sl, dl) ==
    LET d == OrderedDict(sl, dl)
        filled == SelectSeq(d, LAMBDA e : e.dev # NoDev)
    IN IF Len(sl) # Len(dl)
       THEN [exc |-> "RuntimeError", why |-> "length", devLog |-> <<>>]
       ELSE IF Len(d) < Len(sl)
       THEN [exc |-> "RuntimeError", why |-> "unique", devLog |-> <<>>]
       ELSE [exc |-> "",
             slotDevDict |-> d,
             slotIndexDict |-> [s \in Range(sl) |->
                 (CHOOSE i \in DOMAIN sl : sl[i] = s /\ \A j \in DOMAIN sl : sl[j] = s => j <= i) - 1],
             devNameSlotDict |-> [n \in {filled[i].dev : i \in DOMAIN filled} |->
                 LET i == CHOOSE i \in DOMAIN filled : filled[i].dev = n /\
                              \A j \in DOMAIN filled : filled[j].dev = n => j <= i
                 IN filled[i].slot],
             devLog |-> [i \in DOMAIN filled |-> [dev |-> filled[i].dev, op |-> "_addDevCallbacks"]]]

\* checkSlotList that looks for empty slots only and lets unknown names pass
checkSlotList_EmptyOnly(sl) ==
    LET emptySlotList == SelectSeq(sl, LAMBDA s : Lookup(slotDevDict, s) = NoDev)
    IN IF Len(emptySlotList) > 0
       THEN [exc |-> "RuntimeError", why |-> "empty", slots |-> emptySlotList]
       ELSE [exc |-> "", why |-> "", slots |-> <<>>]

\* DeviceSet.checkSlotList
checkSlotList(sl) ==
    LET emptySlotList == SelectSeq(sl, LAMBDA s : GetItem(s) = NoDev)
        invalidSlotList == SelectSeq(sl, LAMBDA s : ~HasSlot(s))
    IN IF Len(invalidSlotList) > 0
       THEN [exc |-> "RuntimeError", why |-> "unknown", slots |-> invalidSlotList]
       ELSE IF Len(emptySlotList) > 0
       THEN [exc |-> "RuntimeError", why |-> "empty", slots |-> emptySlotList]
       ELSE [exc |-> "", why |-> "", slots |-> <<>>]

\* a slotList argument: None, or a collection of slot names
NoneArg == [isNone |-> TRUE, list |-> <<>>]

ListArg(sl) == [isNone |-> FALSE, list |-> sl]

\* expandSlotList that returns the given list without checking it
expandSlotList_NoCheck(arg) ==
    IF arg.isNone
    THEN [exc |-> "", slots |-> filledSlotList]
    ELSE [exc |-> "", slots |-> arg.list]

\* DeviceSet.expandSlotList
expandSlotList(arg) ==
    IF arg.isNone
    THEN [exc |-> "", slots |-> filledSlotList]
    ELSE IF checkSlotList(arg.list).exc # ""
    THEN [exc |-> checkSlotList(arg.list).exc, slots |-> <<>>]
    ELSE [exc |-> "", slots |-> arg.list]

(***************************************************************************)
(* RunCmdDict: one dispatch run.                                           *)
(*   cmdDict     the command map, in iteration order: (slot, cmd) pairs,   *)
(*               cmd "str" for a command string, "list" for a sequence     *)
(*   callFunc    whether a callFunc (onEach) was supplied                  *)
(*   devs        the closure variable dev of each slot's devCmdCallback    *)
(*   devCmd      state of the handle dev.startCmd / startCmdList returned  *)
(*   newDevCmd   state of the handle callFunc returned for the slot        *)
(*   devCmdDict  self.devCmdDict: which of the two handles is tracked      *)
(*   failSlotSet self.failSlotSet                                          *)
(*   userCmd     self.userCmd                                              *)
(*   issued, out the device calls and writeToUsers calls the run made      *)
(*   nCallFunc, raisedIn   calls of callFunc per slot, slots it raised in  *)
(*   exc         the exception __init__ ended with, "" for none            *)
(*   order       the order in which a dict or set keyed by the run's slot  *)
(*               names iterates (Python leaves it to the keys' hashes)     *)
(*   timeLim     the timeLim argument of __init__                          *)
(*   initEvents  what __init__ did, in order: the command issued for a     *)
(*               slot, a devCmdCallback that ran before __init__ returned  *)
(*   detected    the slots added to failSlotSet, in the order of adding    *)
(*   calledWith  per slot, the dev of the DevCmdInfo callFunc was given    *)
(***************************************************************************)
CmdKinds == {"str", "list"}

\* what one call of callFunc does: return None, raise, or return a new
\* command handle that is in the state named
CallFuncResults == {"None", "raise", "running", "done", "failed"}

NewRun(cmdDict, callFunc, order, timeLim) ==
    [cmdDict |-> cmdDict, callFunc |-> callFunc, order |-> order, devs |-> EmptyMap,
     devCmd |-> EmptyMap, newDevCmd |-> EmptyMap, devCmdDict |-> EmptyMap,
     failSlotSet |-> {}, userCmd |-> NewUserCmd, issued |-> <<>>, out |-> <<>>,
     nCallFunc |-> EmptyMap, raisedIn |-> {}, exc |-> "",
     timeLim |-> timeLim, initEvents |-> <<>>, detected |-> <<>>,
     calledWith |-> EmptyMap]

\* the state of the handle self.devCmdDict holds for the slot
Tracked(run, slot) ==
    IF run.devCmdDict[slot] = "init" THEN run.devCmd[slot] ELSE run.newDevCmd[slot]

Min(S) == CHOOSE x \in S : \A y \in S : x <= y

\* self.failSlotSet.add(slot)
failSlotSetAdd(run, slot) ==
    [run EXCEPT !.failSlotSet = @ \cup {slot},
                !.detected = IF slot \in run.failSlotSet THEN @ ELSE Append(@, slot)]

\* checkDone without "if not self.userCmd.isDone": setState is called again
\* whenever every tracked handle is found terminal
checkDone_NoGuard(run) ==
    LET check(self) ==
            LET failSlotSet == self.failSlotSet \cup
                    {s \in DOMAIN self.devCmdDict : DidFail(Tracked(self, s))}
                r1 == [self EXCEPT !.failSlotSet = failSlotSet]
            IN IF \E s \in DOMAIN self.devCmdDict : ~IsDone(Tracked(self, s)) THEN self
               ELSE IF failSlotSet # {}
               THEN [r1 EXCEPT !.userCmd =
                        SetState(@, "failed", IterOrder(self.order, failSlotSet))]
               ELSE [r1 EXCEPT !.userCmd = SetState(@, "done", <<>>)]
    IN CHOOSE res \in {check(self) : self \in {run}} : TRUE

\* checkDone that resolves nothing while the run tracks no handle
checkDone_NeedsHandle(run) ==
    LET check(self) ==
            LET items == IterOrder(self.order, DOMAIN self.devCmdDict)
                notDone == {i \in DOMAIN items : ~IsDone(Tracked(self, items[i]))}
                stop == IF notDone = {} THEN Len(items) + 1 ELSE Min(notDone)
                seenFail == {items[i] : i \in
                                {j \in 1..(stop - 1) : DidFail(Tracked(self, items[j]))}}
                failSlotSet == self.failSlotSet \cup seenFail
                added == SelectSeq(items, LAMBDA s : s \in seenFail \ self.failSlotSet)
                r1 == [self EXCEPT !.failSlotSet = failSlotSet,
                                   !.detected = @ \o added]
            IN IF notDone # {} \/ DOMAIN self.devCmdDict = {} THEN r1
               ELSE IF IsDone(self.userCmd.state) THEN r1
               ELSE IF failSlotSet # {}
               THEN [r1 EXCEPT !.userCmd =
                        SetState(@, "failed", IterOrder(self.order, failSlotSet))]
               ELSE [r1 EXCEPT !.userCmd = SetState(@, "done", <<>>)]
    IN CHOOSE res \in {check(self) : self \in {run}} : TRUE

\* RunCmdDict.checkDone (the run is evaluated once, then looked at)
checkDone(run) ==
    LET check(self) ==
            LET items == IterOrder(self.order, DOMAIN self.devCmdDict)
                notDone == {i \in DOMAIN items : ~IsDone(Tracked(self, items[i]))}
                stop == IF notDone = {} THEN Len(items) + 1 ELSE Min(notDone)
                seenFail == {items[i] : i \in
                                {j \in 1..(stop - 1) : DidFail(Tracked(self, items[j]))}}
                failSlotSet == self.failSlotSet \cup seenFail
                added == SelectSeq(items, LAMBDA s : s \in seenFail \ self.failSlotSet)
                r1 == [self EXCEPT !.failSlotSet = failSlotSet,
                                   !.detected = @ \o added]
            IN IF notDone # {} THEN r1
               ELSE IF IsDone(self.userCmd.state) THEN r1
               ELSE IF failSlotSet # {}
               THEN [r1 EXCEPT !.userCmd =
                        SetState(@, "failed", IterOrder(self.order, failSlotSet))]
               ELSE [r1 EXCEPT !.userCmd = SetState(@, "done", <<>>)]
    IN CHOOSE res \in {check(self) : self \in {run}} : TRUE

\* newDevCmdCallback that runs callFunc on the handle it is given
newDevCmdCallback_CallsAgain(run, slot) ==
    checkDone([run EXCEPT !.devCmdDict = SetKey(@, slot, "chain"),
                          !.nCallFunc = SetKey(@, slot, @[slot] + 1)])

\* newDevCmdCallback, the callback of a handle callFunc returned
newDevCmdCallback(run, slot) ==
    checkDone([run EXCEPT !.devCmdDict = SetKey(@, slot, "chain")])

\* the body of "if callFunc:" where the DevCmdInfo holds the device that is
\* in the slot when the callback runs
callFuncBlock_CurrentDev(run, slot, res) ==
    LET r0 == [run EXCEPT !.nCallFunc =
                   SetKey(@, slot, IF slot \in DOMAIN @ THEN @[slot] + 1 ELSE 1),
                          !.calledWith = SetKey(@, slot, GetItem(slot))]
    IN CASE res = "None" -> r0
         [] res = "raise" ->
              [failSlotSetAdd(r0, slot) EXCEPT
                         !.raisedIn = @ \cup {slot},
                         !.out = Append(@, [sev |-> "f", about |-> slot])]
         [] OTHER ->
              LET r1 == [r0 EXCEPT !.newDevCmd = SetKey(@, slot, res),
                                   !.devCmdDict = SetKey(@, slot, "chain")]
                  r2 == IF IsDone(res) THEN newDevCmdCallback(r1, slot) ELSE r1
              IN [r2 EXCEPT !.devCmdDict = SetKey(@, slot, "chain")]

\* the body of "if callFunc:" in devCmdCallback; res is what callFunc does
\* (the callback holds slot and dev as they were when it was defined)
callFuncBlock(run, slot, res) ==
    LET r0 == [run EXCEPT !.nCallFunc =
                   SetKey(@, slot, IF slot \in DOMAIN @ THEN @[slot] + 1 ELSE 1),
                          !.calledWith = SetKey(@, slot, run.devs[slot])]
    IN CASE res = "None" -> r0
         [] res = "raise" ->
              [failSlotSetAdd(r0, slot) EXCEPT
                         !.raisedIn = @ \cup {slot},
                         !.out = Append(@, [sev |-> "f", about |-> slot])]
         [] OTHER ->
              LET r1 == [r0 EXCEPT !.newDevCmd = SetKey(@, slot, res),
                                   !.devCmdDict = SetKey(@, slot, "chain")]
                  r2 == IF IsDone(res) THEN newDevCmdCallback(r1, slot) ELSE r1
              IN [r2 EXCEPT !.devCmdDict = SetKey(@, slot, "chain")]

\* devCmdCallback without its closing self.checkDone()
devCmdCallback_NoCheck(run, slot, res) ==
    LET r1 == [run EXCEPT
                  !.failSlotSet = IF DidFail(run.devCmd[slot]) THEN @ \cup {slot} ELSE @,
                  !.devCmdDict = SetKey(@, slot, "init")]
    IN IF run.callFunc THEN callFuncBlock(r1, slot, res) ELSE r1

\* devCmdCallback, the callback of a handle the dispatch loop obtained;
\* run.devCmd[slot] is the handle's (terminal) state
devCmdCallback(run, slot, res) ==
    LET r0 == IF DidFail(run.devCmd[slot]) THEN failSlotSetAdd(run, slot) ELSE run
        r1 == [r0 EXCEPT !.devCmdDict = SetKey(@, slot, "init")]
        r2 == IF run.callFunc THEN callFuncBlock(r1, slot, res) ELSE r1
    IN checkDone(r2)

\* one pass of "for slot, cmdStrOrList in cmdDict.iteritems()": ch[i].pre is
\* the state of the handle the device returns, ch[i].res what callFunc does
\* if the handle's callback fires at once
RECURSIVE dispatchLoop(_, _, _)
dispatchLoop(run, i, ch) ==
    IF i > Len(run.cmdDict) THEN run
    ELSE LET slot == run.cmdDict[i].slot
             dev == GetItem(slot)
         IN IF dev = "KeyError" THEN [run EXCEPT !.exc = "KeyError"]
            ELSE IF dev = NoDev THEN [run EXCEPT !.exc = "AttributeError"]
            ELSE LET op == IF run.cmdDict[i].cmd = "str" THEN "startCmd" ELSE "startCmdList"
                     r1 == [run EXCEPT
                               !.devs = SetKey(@, slot, dev),
                               !.issued = Append(@, [dev |-> dev, op |-> op,
                                                    timeLim |-> run.timeLim]),
                               !.devCmd = SetKey(@, slot, ch[i].pre),
                               !.devCmdDict = SetKey(@, slot, "init"),
                               !.initEvents = Append(@, [ev |-> "issue", slot |-> slot])]
                     r2 == IF IsDone(ch[i].pre)
                           THEN devCmdCallback(
                                   [r1 EXCEPT !.initEvents =
                                       Append(@, [ev |-> "devCmdCallback", slot |-> slot])],
                                   slot, ch[i].res)
                           ELSE r1
                 IN dispatchLoop(r2, i + 1, ch)

\* RunCmdDict.__init__
RunCmdDictInit(cmdDict, callFunc, order, ch, timeLim) ==
    LET keys == [i \in DOMAIN cmdDict |-> cmdDict[i].slot]
        chk == checkSlotList(keys)
        run == dispatchLoop(NewRun(cmdDict, callFunc, order, timeLim), 1, ch)
    IN IF chk.exc # ""
       THEN [NewRun(cmdDict, callFunc, order, timeLim) EXCEPT !.exc = chk.exc]
       ELSE IF run.exc # "" THEN run
       ELSE checkDone(run)

(***************************************************************************)
(* DeviceSet.startCmd builds the command map of a broadcast.               *)
(***************************************************************************)
startCmdDictOf(cmd, arg) ==
    LET sl == IF arg.isNone THEN filledSlotList ELSE arg.list
        d == OrderedDict(sl, [i \in DOMAIN sl |-> cmd])
    IN [i \in DOMAIN d |-> [slot |-> d[i].slot, cmd |-> d[i].dev]]

(***************************************************************************)
(* connect / disconnect.  A link is one call of _connectOrDisconnect:      *)
(*   doConnect  connect or disconnect                                      *)
(*   children   state of the handle of each slot's dev.connect/disconnect  *)
(*   userCmd    the command LinkCommands resolves                          *)
(***************************************************************************)
\* LinkCommands (twistedActor.linkCommands, consumed): the main command is
\* Done or Failed once every linked command is terminal
LinkCommands(userCmd, children) ==
    IF \E s \in DOMAIN children : ~IsDone(children[s]) THEN userCmd
    ELSE IF IsDone(userCmd.state) THEN userCmd
    ELSE IF \E s \in DOMAIN children : DidFail(children[s])
    THEN SetState(userCmd, "failed", <<>>)
    ELSE SetState(userCmd, "done", <<>>)

NewLink(doConnect) ==
    [doConnect |-> doConnect, children |-> EmptyMap, userCmd |-> NewUserCmd,
     issued |-> <<>>, exc |-> ""]

\* "for slot in slotList" of _connectOrDisconnect; pre[i] is the state of the
\* handle the device returns
RECURSIVE connLoop(_, _, _, _)
connLoop(link, sl, i, pre) ==
    IF i > Len(sl) THEN link
    ELSE LET dev == GetItem(sl[i])
         IN IF dev = "KeyError" THEN [link EXCEPT !.exc = "KeyError"]
            ELSE IF dev = NoDev THEN connLoop(link, sl, i + 1, pre)
            ELSE connLoop(
                    [link EXCEPT
                        !.issued = Append(@, [dev |-> dev,
                            op |-> IF link.doConnect THEN "connect" ELSE "disconnect"]),
                        !.children = SetKey(@, sl[i], pre[i])],
                    sl, i + 1, pre)

\* DeviceSet._connectOrDisconnect
connectOrDisconnect(doConnect, arg, pre) ==
    LET e == expandSlotList(arg)
        link == connLoop(NewLink(doConnect), e.slots, 1, pre)
    IN IF e.exc # "" THEN [NewLink(doConnect) EXCEPT !.exc = e.exc]
       ELSE IF link.exc # "" THEN link
       ELSE [link EXCEPT !.userCmd = LinkCommands(@, link.children)]

(***************************************************************************)
(* replaceDev.  A replacement is one call of replaceDev that did not       *)
(* raise:                                                                  *)
(*   slot, dev  the arguments; dev is NoDev for a removal                  *)
(*   initCmd    state of the command given to dev.connect ("none" for a    *)
(*              removal); its callback is initCallback                     *)
(*   userCmd    the command replaceDev returned                            *)
(* The operators work on the registry fields they read and write:          *)
(* [slotDevDict, devNameSlotDict, devLog, toUsers].                        *)
(***************************************************************************)
Registry ==
    [slotDevDict |-> slotDevDict, devNameSlotDict |-> devNameSlotDict,
     devLog |-> devLog, toUsers |-> toUsers]

\* "if oldDev: self._removeDevCallbacks(oldDev); oldDev.init()"
releaseOld(log, oldDev) ==
    IF oldDev # NoDev
    THEN log \o <<[dev |-> oldDev, op |-> "_removeDevCallbacks"],
                  [dev |-> oldDev, op |-> "init"]>>
    ELSE log

\* initCallback that reports a failed connect and leaves the slot alone
initCallback_FailKeepsOld(reg, rec) ==
    IF DidFail(rec.initCmd)
    THEN [reg |-> [reg EXCEPT !.toUsers = Append(@, [sev |-> "w", about |-> rec.slot])],
          rec |-> [rec EXCEPT !.userCmd = SetState(@, "failed", <<>>)],
          exc |-> ""]
    ELSE [reg |->
             [slotDevDict |-> SetItem(reg.slotDevDict, rec.slot, rec.dev),
              devNameSlotDict |-> SetKey(reg.devNameSlotDict, rec.dev, rec.slot),
              devLog |-> releaseOld(reg.devLog, Lookup(reg.slotDevDict, rec.slot)) \o
                            <<[dev |-> rec.dev, op |-> "install"],
                              [dev |-> rec.dev, op |-> "_addDevCallbacks"]>>,
              toUsers |-> reg.toUsers],
          rec |-> [rec EXCEPT !.userCmd = SetState(@, "done", <<>>)],
          exc |-> ""]

\* initCallback that leaves alone a slot that is empty when the connect ends
initCallback_SkipIfEmptied(reg, rec) ==
    IF Lookup(reg.slotDevDict, rec.slot) = NoDev
    THEN [reg |-> reg,
          rec |-> [rec EXCEPT !.userCmd =
                      IF IsDone(@.state) THEN @ ELSE SetState(@, "done", <<>>)],
          exc |-> ""]
    ELSE [reg |->
             [slotDevDict |-> SetItem(reg.slotDevDict, rec.slot, rec.dev),
              devNameSlotDict |-> SetKey(reg.devNameSlotDict, rec.dev, rec.slot),
              devLog |-> releaseOld(reg.devLog, Lookup(reg.slotDevDict, rec.slot)) \o
                            <<[dev |-> rec.dev, op |-> "install"],
                              [dev |-> rec.dev, op |-> "_addDevCallbacks"]>>,
              toUsers |-> IF DidFail(rec.initCmd)
                          THEN Append(reg.toUsers, [sev |-> "w", about |-> rec.slot])
                          ELSE reg.toUsers],
          rec |-> [rec EXCEPT !.userCmd =
                      IF IsDone(@.state) THEN @ ELSE SetState(@, "done", <<>>)],
          exc |-> ""]

\* initCallback that stores and subscribes the new device first and releases
\* the old device last
initCallback_ReleaseLast(reg, rec) ==
    [reg |->
        [slotDevDict |-> SetItem(reg.slotDevDict, rec.slot, rec.dev),
         devNameSlotDict |-> SetKey(reg.devNameSlotDict, rec.dev, rec.slot),
         devLog |-> releaseOld(reg.devLog \o
                                  <<[dev |-> rec.dev, op |-> "install"],
                                    [dev |-> rec.dev, op |-> "_addDevCallbacks"]>>,
                               Lookup(reg.slotDevDict, rec.slot)),
         toUsers |-> IF DidFail(rec.initCmd)
                     THEN Append(reg.toUsers, [sev |-> "w", about |-> rec.slot])
                     ELSE reg.toUsers],
     rec |-> [rec EXCEPT !.userCmd =
                 IF IsDone(@.state) THEN @ ELSE SetState(@, "done", <<>>)],
     exc |-> ""]

\* initCallback, the callback of the command given to dev.connect;
\* rec.initCmd is the command's (terminal) state
initCallback(reg, rec) ==
    [reg |->
        [slotDevDict |-> SetItem(reg.slotDevDict, rec.slot, rec.dev),
         devNameSlotDict |-> SetKey(reg.devNameSlotDict, rec.dev, rec.slot),
         devLog |-> releaseOld(reg.devLog, Lookup(reg.slotDevDict, rec.slot)) \o
                       <<[dev |-> rec.dev, op |-> "install"],
                         [dev |-> rec.dev, op |-> "_addDevCallbacks"]>>,
         toUsers |-> IF DidFail(rec.initCmd)
                     THEN Append(reg.toUsers, [sev |-> "w", about |-> rec.slot])
                     ELSE reg.toUsers],
     rec |-> [rec EXCEPT !.userCmd =
                 IF IsDone(@.state) THEN @ ELSE SetState(@, "done", <<>>)],
     exc |-> ""]

\* the removal branch without the release of the old device
replaceDevNone_NoRelease(reg, slot) ==
    [reg |-> [reg EXCEPT !.slotDevDict = SetItem(@, slot, NoDev)],
     rec |-> [slot |-> slot, dev |-> NoDev, initCmd |-> "none",
              userCmd |-> SetState(NewUserCmd, "done", <<>>)],
     exc |-> ""]

\* the removal branch that deletes the slot's key instead of storing None
replaceDevNone_DelSlot(reg, slot) ==
    [reg |-> [reg EXCEPT
                 !.slotDevDict = SelectSeq(@, LAMBDA e : e.slot # slot),
                 !.devLog = releaseOld(@, Lookup(reg.slotDevDict, slot))],
     rec |-> [slot |-> slot, dev |-> NoDev, initCmd |-> "none",
              userCmd |-> SetState(NewUserCmd, "done", <<>>)],
     exc |-> ""]

\* the "if dev is None:" branch of replaceDev
replaceDevNone(reg, slot) ==
    [reg |-> [reg EXCEPT
                 !.slotDevDict = SetItem(@, slot, NoDev),
                 !.devLog = releaseOld(@, Lookup(reg.slotDevDict, slot))],
     rec |-> [slot |-> slot, dev |-> NoDev, initCmd |-> "none",
              userCmd |-> SetState(NewUserCmd, "done", <<>>)],
     exc |-> ""]

\* DeviceSet.replaceDev; pre is the state dev.connect leaves initCmd in
replaceDev(reg, slot, dev, pre) ==
    LET rec == [slot |-> slot, dev |-> dev, initCmd |-> pre, userCmd |-> NewUserCmd]
        reg1 == [reg EXCEPT !.devLog = Append(@, [dev |-> dev, op |-> "connect"])]
    IN IF ~InDict(reg.slotDevDict, slot)
       THEN [reg |-> reg, rec |-> rec, exc |-> "RuntimeError"]
       ELSE IF dev = NoDev THEN replaceDevNone(reg, slot)
       ELSE IF IsDone(pre) THEN initCallback(reg1, rec)
       ELSE [reg |-> reg1, rec |-> rec, exc |-> ""]

(***************************************************************************)
(* The inputs the scenarios draw from.                                     *)
(***************************************************************************)
SlotNames == Range(slotList) \cup {UnknownSlot}

SlotLists == NoDupSeqs(SlotNames, MaxKeys)

CmdDicts ==
    UNION {{[i \in DOMAIN sl |-> [slot |-> sl[i], cmd |-> k[i]]] :
               k \in [DOMAIN sl -> CmdKinds]} : sl \in SlotLists}

SlotArgs == {NoneArg} \cup {ListArg(sl) : sl \in SlotLists}

\* the timeLim a caller gives: no limit (0), or a limit in seconds
TimeLims == {0, DefaultTimeLim}

\* per slot of a valid command map: the state of the handle the device
\* returns and, if that handle is terminal and there is a callFunc, what
\* callFunc does when the callback fires at once
Choice(callFunc) ==
    {[pre |-> "running", res |-> "None"]} \cup
    {[pre |-> p, res |-> c] : p \in {"done", "failed"},
        c \in IF callFunc THEN CallFuncResults ELSE {"None"}}

ValidDict(cmdDict) ==
    \A i \in DOMAIN cmdDict : GetItem(cmdDict[i].slot) \notin {"KeyError", NoDev}

Choices(cmdDict, callFunc) ==
    IF ValidDict(cmdDict)
    THEN [DOMAIN cmdDict -> Choice(callFunc)]
    ELSE {[i \in DOMAIN cmdDict |-> [pre |-> "running", res |-> "None"]]}

\* the iteration orders of a dict keyed by the slots of the command map
Orders(cmdDict) ==
    IF ValidDict(cmdDict)
    THEN Perms({cmdDict[i].slot : i \in DOMAIN cmdDict})
    ELSE {[i \in DOMAIN cmdDict |-> cmdDict[i].slot]}

(***************************************************************************)
(* Actions: the dispatch calls and their completion callbacks.             *)
(***************************************************************************)
RegistryVars == <<slotDevDict, slotIndexDict, devNameSlotDict>>

\* a call of startCmdDict or startCmd: asked is the timeLim the caller gave,
\* timeLim the one that reaches RunCmdDict
Dispatch(opName, arg, cmdDict, callFunc, order, ch, asked, timeLim) ==
    \E run \in {RunCmdDictInit(cmdDict, callFunc, order, ch, timeLim)} :
       /\ callsLeft' = callsLeft - 1
       /\ rcd' = IF run.exc = "" THEN Append(rcd, run) ELSE rcd
       /\ devLog' = devLog \o run.issued
       /\ toUsers' = toUsers \o run.out
       /\ lastOp' = [op |-> opName, exc |-> run.exc, arg |-> arg,
                     id |-> IF run.exc = "" THEN Len(rcd) + 1 ELSE 0,
                     timeLim |-> asked]
       /\ UNCHANGED <<RegistryVars, links, repl, aw>>

\* DeviceSet.startCmdDict(cmdDict, callFunc, timeLim): timeLim is handed on
\* to RunCmdDict
StartCmdDict ==
    /\ callsLeft > 0
    /\ \E cmdDict \in CmdDicts, callFunc \in BOOLEAN, timeLim \in TimeLims :
           \E ch \in Choices(cmdDict, callFunc), order \in Orders(cmdDict) :
               Dispatch("startCmdDict", ListArg([i \in DOMAIN cmdDict |-> cmdDict[i].slot]),
                        cmdDict, callFunc, order, ch, timeLim, timeLim)

\* DeviceSet.startCmd(cmdStrOrList, slotList, callFunc, timeLim): the call
\* of startCmdDict names cmdDict, callFunc and userCmd only, so startCmdDict
\* runs with its default timeLim
StartCmd ==
    /\ callsLeft > 0
    /\ \E cmd \in CmdKinds, arg \in SlotArgs, callFunc \in BOOLEAN, timeLim \in TimeLims :
           \E ch \in Choices(startCmdDictOf(cmd, arg), callFunc),
              order \in Orders(startCmdDictOf(cmd, arg)) :
               Dispatch("startCmd", arg, startCmdDictOf(cmd, arg), callFunc, order, ch,
                        timeLim, DefaultTimeLim)

\* devCmdCallback over a failed-slot set that all runs share
DevCmdDone_Shared ==
    \E r \in DOMAIN rcd :
        \E slot \in DOMAIN rcd[r].devCmd, outcome \in {"done", "failed"} :
            \E res \in IF rcd[r].callFunc THEN CallFuncResults ELSE {"None"} :
                /\ rcd[r].devCmd[slot] = "running"
                /\ lastOp' = [op |-> "devCmdCallback", exc |-> "", arg |-> NoneArg, id |-> r]
                /\ \E run \in {devCmdCallback([rcd[r] EXCEPT !.devCmd[slot] = outcome], slot, res)} :
                      /\ rcd' = [q \in DOMAIN rcd |->
                                    IF q = r THEN run
                                    ELSE [rcd[q] EXCEPT !.failSlotSet = @ \cup run.failSlotSet]]
                      /\ toUsers' = toUsers \o SubSeq(run.out, Len(rcd[r].out) + 1, Len(run.out))
                /\ UNCHANGED <<RegistryVars, links, repl, devLog, callsLeft, aw>>

\* the handle the dispatch loop obtained for the slot becomes terminal and
\* its callback devCmdCallback runs
DevCmdDone ==
    \E r \in DOMAIN rcd :
        \E slot \in DOMAIN rcd[r].devCmd, outcome \in {"done", "failed"} :
            \E res \in IF rcd[r].callFunc THEN CallFuncResults ELSE {"None"} :
                /\ rcd[r].devCmd[slot] = "running"
                /\ lastOp' = [op |-> "devCmdCallback", exc |-> "", arg |-> NoneArg, id |-> r]
                /\ \E run \in {devCmdCallback([rcd[r] EXCEPT !.devCmd[slot] = outcome], slot, res)} :
                      /\ rcd' = [rcd EXCEPT ![r] = run]
                      /\ toUsers' = toUsers \o SubSeq(run.out, Len(rcd[r].out) + 1, Len(run.out))
                /\ UNCHANGED <<RegistryVars, links, repl, devLog, callsLeft, aw>>

\* the handle callFunc returned for the slot becomes terminal and its
\* callback newDevCmdCallback runs
NewDevCmdDone ==
    \E r \in DOMAIN rcd :
        \E slot \in DOMAIN rcd[r].newDevCmd, outcome \in {"done", "failed"} :
            /\ rcd[r].newDevCmd[slot] = "running"
            /\ lastOp' = [op |-> "newDevCmdCallback", exc |-> "", arg |-> NoneArg, id |-> r]
            /\ rcd' = [rcd EXCEPT ![r] =
                          newDevCmdCallback([rcd[r] EXCEPT !.newDevCmd[slot] = outcome], slot)]
            /\ UNCHANGED <<RegistryVars, links, repl, devLog, toUsers, callsLeft, aw>>

ConnectOrDisconnect(opName, doConnect) ==
    /\ callsLeft > 0
    /\ \E arg \in SlotArgs :
        \E pre \in [1..Len(expandSlotList(arg).slots) -> CmdStates] :
            LET link == connectOrDisconnect(doConnect, arg, pre)
            IN /\ callsLeft' = callsLeft - 1
               /\ links' = IF link.exc = "" THEN Append(links, link) ELSE links
               /\ devLog' = devLog \o link.issued
               /\ lastOp' = [op |-> opName, exc |-> link.exc, arg |-> arg,
                             id |-> IF link.exc = "" THEN Len(links) + 1 ELSE 0]
               /\ UNCHANGED <<RegistryVars, rcd, repl, toUsers, aw>>

\* DeviceSet.connect(slotList)
Connect == ConnectOrDisconnect("connect", TRUE)

\* DeviceSet.disconnect(slotList)
Disconnect == ConnectOrDisconnect("disconnect", FALSE)

\* a handle of dev.connect / dev.disconnect becomes terminal and
\* LinkCommands looks at its commands again
ConnDone ==
    \E l \in DOMAIN links :
        \E slot \in DOMAIN links[l].children, outcome \in {"done", "failed"} :
            LET ch == [links[l].children EXCEPT ![slot] = outcome]
            IN /\ links[l].children[slot] = "running"
               /\ links' = [links EXCEPT ![l] =
                     [@ EXCEPT !.children = ch, !.userCmd = LinkCommands(@, ch)]]
               /\ lastOp' = [op |-> "linkCallback", exc |-> "", arg |-> NoneArg, id |-> l]
               /\ UNCHANGED <<RegistryVars, rcd, repl, devLog, toUsers, callsLeft, aw>>

(***************************************************************************)
(* The dispatch scenario: a registry of two filled slots and one empty     *)
(* slot, one public call, and the completions of the handles it obtained.  *)
(***************************************************************************)
RunSlots == <<"a", "b", "e">>

RunDevs == <<"d1", "d2", NoDev>>

NoOp == [op |-> "__init__", exc |-> "", arg |-> NoneArg, id |-> 0]

\* the scenario has no ActorWrapper
NoWrapper == [actor |-> NoDev]

InitRegistry(sl, dl) ==
    /\ slotDevDict = Construct(sl, dl).slotDevDict
    /\ slotIndexDict = Construct(sl, dl).slotIndexDict
    /\ devNameSlotDict = Construct(sl, dl).devNameSlotDict
    /\ devLog = Construct(sl, dl).devLog
    /\ rcd = <<>>
    /\ links = <<>>
    /\ repl = <<>>
    /\ toUsers = <<>>
    /\ lastOp = NoOp
    /\ aw = NoWrapper

Init ==
    /\ InitRegistry(RunSlots, RunDevs)
    /\ callsLeft = 1

Next ==
    \/ StartCmdDict
    \/ StartCmd
    \/ Connect
    \/ Disconnect
    \/ DevCmdDone
    \/ NewDevCmdDone
    \/ ConnDone

Spec == Init /\ [][Next]_vars

\* every handle a device or callFunc returned becomes terminal and its
\* callback is delivered
FairSpec == Spec /\ WF_vars(DevCmdDone) /\ WF_vars(NewDevCmdDone) /\ WF_vars(ConnDone)

(***************************************************************************)
(* Properties of a dispatch run.                                           *)
(***************************************************************************)
RunSlotSet(run) == {run.cmdDict[i].slot : i \in DOMAIN run.cmdDict}

\* every slot of the command map is tracked and its tracked handle is terminal
AllTrackedDone(run) ==
    \A slot \in RunSlotSet(run) :
        slot \in DOMAIN run.devCmdDict /\ IsDone(Tracked(run, slot))

\* every handle the run ever obtained is terminal
AllHandlesDone(run) ==
    /\ \A slot \in RunSlotSet(run) : slot \in DOMAIN run.devCmd /\ IsDone(run.devCmd[slot])
    /\ \A slot \in DOMAIN run.newDevCmd : IsDone(run.newDevCmd[slot])

IsCallback(op) == op \in {"devCmdCallback", "newDevCmdCallback"}

\* C1: whenever the userCmd of a dispatch run is terminal, every slot of the
\* command map has had its command issued and the handle tracked for the slot
\* is terminal.
C1_TerminalOnlyAfterAll ==
    \A r \in DOMAIN rcd :
        IsDone(rcd[r].userCmd.state) => AllTrackedDone(rcd[r])

\* C2: once the userCmd of a run is terminal no later event of the run changes
\* its state or message, and the run calls setState on it at most once.
C2_ResolvedOnce ==
    [][\A r \in DOMAIN rcd' :
          /\ rcd'[r].userCmd.nSet <= 1
          /\ (r \in DOMAIN rcd /\ IsDone(rcd[r].userCmd.state))
                 => rcd'[r].userCmd = rcd[r].userCmd]_vars

\* a completion callback ran in a run whose userCmd had been resolved before
\* a failure was recorded
C2_Witness ==
    \E r \in DOMAIN rcd :
        /\ IsCallback(lastOp.op) /\ lastOp.id = r
        /\ rcd[r].userCmd.state = "done" /\ rcd[r].userCmd.nSet = 1
        /\ rcd[r].failSlotSet # {}
        /\ AllHandlesDone(rcd[r])

\* C3: without a callFunc, when every handle of the run is terminal the
\* userCmd is Done iff every device command succeeded, and otherwise Failed
\* with a message that names exactly the slots whose command failed.
C3_OutcomeIsExact ==
    \A r \in DOMAIN rcd :
        LET run == rcd[r]
            failed == {slot \in RunSlotSet(run) : DidFail(run.devCmd[slot])}
        IN (~run.callFunc /\ AllHandlesDone(run)) =>
              /\ run.userCmd.state = (IF failed = {} THEN "done" ELSE "failed")
              /\ Range(run.userCmd.msg) = failed

\* C4: while a handle that callFunc returned is not terminal, the userCmd of
\* the run is not terminal.
C4_WaitsForNewDevCmd ==
    \A r \in DOMAIN rcd :
        \A slot \in DOMAIN rcd[r].newDevCmd :
            ~IsDone(rcd[r].newDevCmd[slot]) => ~IsDone(rcd[r].userCmd.state)

\* C5: if callFunc raised for slot X the callback went on: X is in the failed
\* set, one message about X was written to the users, and once every handle
\* is terminal the userCmd is Failed and names X.
C5_RaiseFailsTheRun ==
    \A r \in DOMAIN rcd :
        \A slot \in rcd[r].raisedIn :
            /\ slot \in rcd[r].failSlotSet
            /\ Cardinality({i \in DOMAIN rcd[r].out : rcd[r].out[i].about = slot}) = 1
            /\ AllHandlesDone(rcd[r]) =>
                  /\ rcd[r].userCmd.state = "failed"
                  /\ slot \in Range(rcd[r].userCmd.msg)

\* C6: if every handle becomes terminal and its callback is delivered, the
\* userCmd of every run becomes terminal.
C6_EventuallyResolved ==
    []<>(\A r \in DOMAIN rcd : IsDone(rcd[r].userCmd.state))

\* a run was resolved by the callback of a handle callFunc had returned
C6_Witness ==
    \E r \in DOMAIN rcd :
        /\ lastOp.op = "newDevCmdCallback" /\ lastOp.id = r
        /\ IsDone(rcd[r].userCmd.state)
        /\ AllHandlesDone(rcd[r])
        /\ \A slot \in RunSlotSet(rcd[r]) : slot \in DOMAIN rcd[r].newDevCmd

IsCall(op) == op \in {"startCmd", "startCmdDict", "connect", "disconnect"}

IsDispatch(op) == op \in {"startCmd", "startCmdDict"}

\* the call is given a slot that is unknown or, for a dispatch, empty
BadArg(op, arg) ==
    /\ ~arg.isNone
    /\ \E i \in DOMAIN arg.list :
          \/ ~HasSlot(arg.list[i])
          \/ IsDispatch(op) /\ GetItem(arg.list[i]) = NoDev

\* C7: startCmd, startCmdDict, connect and disconnect given an unknown slot
\* (or, for the dispatch calls, an empty one) raise before any call is made
\* on a device and leave the registry as it was.
C7_RaisesBeforeAnyDeviceCall ==
    [][(IsCall(lastOp'.op) /\ callsLeft' # callsLeft /\ BadArg(lastOp'.op, lastOp'.arg))
          => /\ lastOp'.exc = "RuntimeError"
             /\ devLog' = devLog
             /\ UNCHANGED <<slotDevDict, slotIndexDict, devNameSlotDict, rcd, links, toUsers>>]_vars

\* a dispatch naming a filled slot and then an unknown one raised
C7_Witness ==
    /\ lastOp.op = "startCmdDict" /\ lastOp.exc = "RuntimeError"
    /\ lastOp.arg.list = <<"a", UnknownSlot>>
    /\ rcd = <<>>


(***************************************************************************)
(* The registry scenario: a registry of one filled and one empty slot,     *)
(* MaxRepl calls of replaceDev, and the completions of the connects.       *)
(***************************************************************************)
RegSlots == <<"a", "b">>

RegDevs == <<"d1", NoDev>>

DevNames == {"d1", "d2", "d3"}

\* a device name is unique among the devices the registry holds or is about
\* to install: the new device is in no other slot and in no replacement of
\* another slot that is still waiting for its connect
MayInstall(slot, dev) ==
    /\ \A i \in DOMAIN slotDevDict :
          slotDevDict[i].dev = dev => slotDevDict[i].slot = slot
    /\ \A r \in DOMAIN repl :
          (repl[r].dev = dev /\ repl[r].initCmd = "running") => repl[r].slot = slot

\* DeviceSet.replaceDev(slot, dev)
ReplaceDev ==
    /\ callsLeft > 0
    /\ \E slot \in SlotNames, dev \in DevNames \cup {NoDev}, pre \in CmdStates :
          /\ dev # NoDev => MayInstall(slot, dev)
          /\ dev = NoDev => pre = "running"
          /\ \E res \in {replaceDev(Registry, slot, dev, pre)} :
                /\ callsLeft' = callsLeft - 1
                /\ slotDevDict' = res.reg.slotDevDict
                /\ devNameSlotDict' = res.reg.devNameSlotDict
                /\ devLog' = res.reg.devLog
                /\ toUsers' = res.reg.toUsers
                /\ repl' = IF res.exc = "" THEN Append(repl, res.rec) ELSE repl
                /\ lastOp' = [op |-> "replaceDev", exc |-> res.exc,
                              arg |-> ListArg(<<slot>>),
                              id |-> IF res.exc = "" THEN Len(repl) + 1 ELSE 0]
                /\ UNCHANGED <<slotIndexDict, rcd, links, aw>>

\* the command given to dev.connect becomes terminal and initCallback runs
InitCmdDone ==
    \E r \in DOMAIN repl, outcome \in {"done", "failed"} :
        /\ repl[r].initCmd = "running"
        /\ lastOp' = [op |-> "initCallback", exc |-> "", arg |-> NoneArg, id |-> r]
        /\ \E res \in {initCallback(Registry, [repl[r] EXCEPT !.initCmd = outcome])} :
              /\ slotDevDict' = res.reg.slotDevDict
              /\ devNameSlotDict' = res.reg.devNameSlotDict
              /\ devLog' = res.reg.devLog
              /\ toUsers' = res.reg.toUsers
              /\ repl' = [repl EXCEPT ![r] = res.rec]
        /\ UNCHANGED <<slotIndexDict, rcd, links, callsLeft, aw>>

InitReg ==
    /\ InitRegistry(RegSlots, RegDevs)
    /\ callsLeft = MaxRepl

NextReg ==
    \/ ReplaceDev
    \/ InitCmdDone

SpecReg == InitReg /\ [][NextReg]_vars

(***************************************************************************)
(* Properties of replaceDev.                                               *)
(***************************************************************************)
\* the replacement of the call that just returned
IsReplaceCall(op, before, after) ==
    op.op = "replaceDev" /\ op.exc = "" /\ after # before

\* C8: a replaceDev(slot, dev) whose connect is not yet terminal leaves the
\* slot as it was; in the step in which the connect becomes terminal, Done or
\* Failed, the slot holds dev and the returned userCmd is Done, and a message
\* is written to the users iff the connect failed.
C8_InstallsWhenConnectEnds ==
    [][/\ (/\ IsReplaceCall(lastOp', callsLeft, callsLeft')
           /\ repl'[lastOp'.id].initCmd = "running")
          => slotDevDict' = slotDevDict /\ toUsers' = toUsers
       /\ \A r \in DOMAIN repl' :
             (/\ IsDone(repl'[r].initCmd)
              /\ r \in DOMAIN repl => ~IsDone(repl[r].initCmd))
             => /\ Lookup(slotDevDict', repl'[r].slot) = repl'[r].dev
                /\ repl'[r].userCmd.state = "done"
                /\ Len(toUsers') - Len(toUsers) =
                      (IF DidFail(repl'[r].initCmd) THEN 1 ELSE 0)]_vars

\* a connect that failed later installed its device over the old one
C8_Witness ==
    /\ lastOp.op = "initCallback"
    /\ repl[lastOp.id].initCmd = "failed"
    /\ GetItem(repl[lastOp.id].slot) = repl[lastOp.id].dev
    /\ repl[lastOp.id].userCmd.state = "done"
    /\ \E i \in DOMAIN toUsers : toUsers[i] = [sev |-> "w", about |-> repl[lastOp.id].slot]
    /\ \E i \in DOMAIN devLog : devLog[i] = [dev |-> "d1", op |-> "init"]

\* C9: replaceDev(slot, None) on a known slot returns a userCmd that is Done,
\* leaves the slot empty and out of filledSlotList, and calls
\* _removeDevCallbacks and init on the previous device once if there was one
\* and not at all if the slot was empty.
C9_RemoveIsImmediate ==
    [][(/\ IsReplaceCall(lastOp', callsLeft, callsLeft')
        /\ repl'[lastOp'.id].dev = NoDev)
          => LET slot == repl'[lastOp'.id].slot
                 old == Lookup(slotDevDict, slot)
             IN /\ repl'[lastOp'.id].userCmd.state = "done"
                /\ Lookup(slotDevDict', slot) = NoDev
                /\ slot \notin Range(FilledOf(slotDevDict'))
                /\ devLog' = devLog \o
                      (IF old = NoDev THEN <<>>
                       ELSE <<[dev |-> old, op |-> "_removeDevCallbacks"],
                              [dev |-> old, op |-> "init"]>>)]_vars

\* a filled slot was emptied
C9_Witness ==
    /\ lastOp.op = "replaceDev" /\ lastOp.exc = "" /\ lastOp.id > 0
    /\ repl[lastOp.id].dev = NoDev
    /\ GetItem(repl[lastOp.id].slot) = NoDev
    /\ Len(devLog) > 0
    /\ devLog[Len(devLog)].op = "init"

\* C10: slotFromDevName(n) is defined and equals s iff slot s holds the device
\* named n.
C10_ReverseIndexConsistent ==
    \A n \in DevNames :
        \A s \in Range(slotList) :
            (n \in DOMAIN devNameSlotDict /\ devNameSlotDict[n] = s) <=> GetItem(s) = n

(***************************************************************************)
(* Properties of connect and disconnect.                                   *)
(***************************************************************************)
IsConn(op) == op \in {"connect", "disconnect"}

\* an explicit slot list of known slots, one of them empty
HasEmptySlot(arg) ==
    /\ ~arg.isNone
    /\ \A i \in DOMAIN arg.list : HasSlot(arg.list[i])
    /\ \E i \in DOMAIN arg.list : GetItem(arg.list[i]) = NoDev

\* the device calls a connect / disconnect over the slots sl makes
ConnCalls(op, sl) == [i \in DOMAIN sl |-> [dev |-> GetItem(sl[i]), op |-> op]]

\* the call that just returned issued op on exactly the slots sl and linked
\* their handles into the userCmd it returned
IssuedOn(sl) ==
    /\ lastOp'.exc = ""
    /\ devLog' = devLog \o ConnCalls(lastOp'.op, sl)
    /\ links' = Append(links, links'[Len(links')])
    /\ DOMAIN links'[Len(links')].children = Range(sl)

C12_TimeLimForwarded ==
    (IsDispatch(lastOp.op) /\ lastOp.exc = "") =>
        \A i \in DOMAIN rcd[lastOp.id].issued :
            rcd[lastOp.id].issued[i].timeLim = lastOp.timeLim

(***************************************************************************)
(* The construction scenario: a DeviceSet is constructed from any slot     *)
(* list and device list of up to MaxSlots entries; on the registry that    *)
(* results two public calls are made: checkSlotList, expandSlotList or     *)
(* replaceDev (with the completion of its connect).                        *)
(***************************************************************************)
MaxSlots == 3

ConsNames == {"a", "b"}

ConsDevs == {"d1", "d2", NoDev}

SeqsUpTo(S, n) == UNION {[1..k -> S] : k \in 0..n}

\* no DeviceSet has been constructed yet
NotBuilt == [op |-> "new", exc |-> "", arg |-> NoneArg, id |-> 0]

\* DeviceSet(actor, slotList, devList)
ConstructSet ==
    /\ lastOp = NotBuilt
    /\ \E sl \in SeqsUpTo(ConsNames, MaxSlots), dl \in SeqsUpTo(ConsDevs, MaxSlots) :
          \E c \in {Construct(sl, dl)} :
             /\ lastOp' = [op |-> "__init__", exc |-> c.exc, id |-> 0,
                           arg |-> [isNone |-> FALSE, list |-> sl, devs |-> dl]]
             /\ devLog' = devLog \o c.devLog
             /\ IF c.exc = ""
                THEN /\ slotDevDict' = c.slotDevDict
                     /\ slotIndexDict' = c.slotIndexDict
                     /\ devNameSlotDict' = c.devNameSlotDict
                     /\ callsLeft' = 2
                ELSE UNCHANGED <<RegistryVars, callsLeft>>
             /\ UNCHANGED <<rcd, links, repl, toUsers, aw>>

\* DeviceSet.checkSlotList(slotList)
CheckSlotListCall ==
    /\ callsLeft > 0
    /\ \E sl \in SlotLists :
          \E r \in {checkSlotList(sl)} :
             /\ lastOp' = [op |-> "checkSlotList", exc |-> r.exc, arg |-> ListArg(sl),
                           id |-> 0, named |-> r.slots]
             /\ callsLeft' = callsLeft - 1
             /\ UNCHANGED <<RegistryVars, rcd, links, repl, devLog, toUsers, aw>>

\* DeviceSet.expandSlotList(slotList)
ExpandSlotListCall ==
    /\ callsLeft > 0
    /\ \E arg \in SlotArgs :
          \E r \in {expandSlotList(arg)} :
             /\ lastOp' = [op |-> "expandSlotList", exc |-> r.exc, arg |-> arg,
                           id |-> 0, result |-> r.slots]
             /\ callsLeft' = callsLeft - 1
             /\ UNCHANGED <<RegistryVars, rcd, links, repl, devLog, toUsers, aw>>

InitCons ==
    /\ slotDevDict = <<>>
    /\ slotIndexDict = EmptyMap
    /\ devNameSlotDict = EmptyMap
    /\ devLog = <<>>
    /\ rcd = <<>>
    /\ links = <<>>
    /\ repl = <<>>
    /\ toUsers = <<>>
    /\ lastOp = NotBuilt
    /\ callsLeft = 0
    /\ aw = NoWrapper

NextCons ==
    \/ ConstructSet
    \/ CheckSlotListCall
    \/ ExpandSlotListCall
    \/ ReplaceDev
    \/ InitCmdDone

SpecCons == InitCons /\ [][NextCons]_vars

(***************************************************************************)
(* Properties of construction and of the slot lists.                       *)
(***************************************************************************)
HasDuplicate(sl) == \E i, j \in DOMAIN sl : i # j /\ sl[i] = sl[j]

\* C13: constructing a DeviceSet raises RuntimeError iff the two lists differ
\* in length or slotList holds a name twice, and when it raises
\* _addDevCallbacks was called for no device.
C13_ConstructRaisesIff ==
    [][(lastOp = NotBuilt /\ lastOp' # lastOp)
          => /\ lastOp'.exc = (IF \/ Len(lastOp'.arg.list) # Len(lastOp'.arg.devs)
                                  \/ HasDuplicate(lastOp'.arg.list)
                               THEN "RuntimeError" ELSE "")
             /\ lastOp'.exc # "" => devLog' = devLog]_vars

\* a construction with a repeated slot name and two devices raised
C13_Witness ==
    /\ lastOp.op = "__init__" /\ lastOp.exc = "RuntimeError"
    /\ lastOp.arg.list = <<"a", "a">>
    /\ lastOp.arg.devs = <<"d1", "d2">>
    /\ devLog = <<>>

\* C14: in every state of the registry, after construction and after any
\* replaceDev, filledSlotList is exactly the slots that hold a device, in the
\* order the slots were given at construction (the order slotIndexDict
\* numbers them in), and expandSlotList(None) returns that sequence.
C14_FilledSlotsExact ==
    LET holding == {s \in DOMAIN slotIndexDict : GetItem(s) \notin {NoDev, "KeyError"}}
    IN /\ Range(filledSlotList) = holding
       /\ Len(filledSlotList) = Cardinality(holding)
       /\ \A i, j \in DOMAIN filledSlotList :
             i < j => slotIndexDict[filledSlotList[i]] < slotIndexDict[filledSlotList[j]]
       /\ (lastOp.op = "expandSlotList" /\ lastOp.arg.isNone)
             => lastOp.exc = "" /\ lastOp.result = filledSlotList

\* the device of the first of two filled slots was replaced, then
\* expandSlotList(None) was called
C14_Witness ==
    /\ lastOp.op = "expandSlotList" /\ lastOp.arg.isNone
    /\ lastOp.result = <<"a", "b">>
    /\ GetItem("a") = "d3"
    /\ Len(repl) = 1

\* the names of the list that are unknown or name an empty slot, in the
\* order of the list
Offending(sl) == SelectSeq(sl, LAMBDA s : GetItem(s) \in {"KeyError", NoDev})

\* C15: checkSlotList raises iff the list holds an unknown name or the name
\* of an empty slot, and the error names every such slot of the list; when
\* it does not raise, expandSlotList returns the list unchanged.
C15_NamesEveryOffender ==
    /\ lastOp.op = "checkSlotList"
          => /\ lastOp.exc = (IF Offending(lastOp.arg.list) # <<>>
                              THEN "RuntimeError" ELSE "")
             /\ lastOp.named = Offending(lastOp.arg.list)
    /\ (lastOp.op = "expandSlotList" /\ ~lastOp.arg.isNone)
          => /\ lastOp.exc = (IF Offending(lastOp.arg.list) # <<>>
                              THEN "RuntimeError" ELSE "")
             /\ lastOp.exc = "" => lastOp.result = lastOp.arg.list

(***************************************************************************)
(* Properties of the order of events in a run.                             *)
(***************************************************************************)
\* where x stands in the sequence sq
Pos(sq, x) == CHOOSE i \in DOMAIN sq : sq[i] = x

\* C17: the slots named in the failure message of a run appear in the order
\* in which their failures were detected.
C17_MessageInDetectionOrder ==
    \A r \in DOMAIN rcd :
        LET msg == rcd[r].userCmd.msg
        IN rcd[r].userCmd.state = "failed" =>
              \A i, j \in DOMAIN msg :
                  i < j => Pos(rcd[r].detected, msg[i]) < Pos(rcd[r].detected, msg[j])

\* C19: within one dispatch call the commands are issued in the iteration
\* order of the command map, and no devCmdCallback of the run ran before the
\* last command was issued.
C19_IssuedBeforeAnyCallback ==
    \A r \in DOMAIN rcd :
        LET ev == rcd[r].initEvents
            issues == SelectSeq(ev, LAMBDA e : e.ev = "issue")
        IN /\ [i \in DOMAIN issues |-> issues[i].slot] =
                 [i \in DOMAIN rcd[r].cmdDict |-> rcd[r].cmdDict[i].slot]
           /\ \A i, j \in DOMAIN ev :
                 (ev[i].ev = "devCmdCallback" /\ ev[j].ev = "issue") => j < i

(***************************************************************************)
(* Properties of the order of a replacement.                               *)
(***************************************************************************)
\* initCallback installed a device in the step: the connect of replacement r
\* became terminal
Installed(r, before, after) ==
    /\ r \in DOMAIN after
    /\ IsDone(after[r].initCmd)
    /\ r \in DOMAIN before => ~IsDone(before[r].initCmd)

\* what the step added to devLog
Logged(before, after) == SubSeq(after, Len(before) + 1, Len(after))

\* the calls that come before initCallback in the step: dev.connect if the
\* connect ended inside replaceDev
ConnectCall(op, dev) ==
    IF op = "replaceDev" THEN <<[dev |-> dev, op |-> "connect"]>> ELSE <<>>

\* C20 as stated: in a replacement with a new device, the old device is
\* unsubscribed and released, then the new device is subscribed
\* (_addDevCallbacks) and then installed, all in one callback invocation.
C20_SubscribedThenInstalled ==
    [][\A r \in DOMAIN repl' :
          Installed(r, repl, repl') =>
              Logged(devLog, devLog') =
                  ConnectCall(lastOp'.op, repl'[r].dev) \o
                  releaseOld(<<>>, Lookup(slotDevDict, repl'[r].slot)) \o
                  <<[dev |-> repl'[r].dev, op |-> "_addDevCallbacks"],
                    [dev |-> repl'[r].dev, op |-> "install"]>>]_vars

\* C20 amended: in a replacement with a new device, the old device is
\* unsubscribed and released, then the new device is installed and then
\* subscribed (_addDevCallbacks), all in one callback invocation.
C20_InstalledThenSubscribed ==
    [][\A r \in DOMAIN repl' :
          Installed(r, repl, repl') =>
              Logged(devLog, devLog') =
                  ConnectCall(lastOp'.op, repl'[r].dev) \o
                  releaseOld(<<>>, Lookup(slotDevDict, repl'[r].slot)) \o
                  <<[dev |-> repl'[r].dev, op |-> "install"],
                    [dev |-> repl'[r].dev, op |-> "_addDevCallbacks"]>>]_vars

\* the callback of a connect replaced the device d1 by d2
C20_Witness ==
    /\ lastOp.op = "initCallback"
    /\ Len(devLog) >= 4
    /\ SubSeq(devLog, Len(devLog) - 3, Len(devLog)) =
          <<[dev |-> "d1", op |-> "_removeDevCallbacks"], [dev |-> "d1", op |-> "init"],
            [dev |-> "d2", op |-> "install"], [dev |-> "d2", op |-> "_addDevCallbacks"]>>

(***************************************************************************)
(* The mixed scenario: a registry of two filled slots and MaxCalls public  *)
(* calls, each a dispatch, a connect, a disconnect or a replaceDev, with   *)
(* the completions of every handle the calls obtained; the dispatch runs   *)
(* hold at most MaxHandles device commands together.                       *)
(***************************************************************************)
MaxCalls == 2

MaxHandles == 3

\* the number of device commands of the runs started so far
NHandles ==
    Cardinality({p \in (DOMAIN rcd) \X (1..MaxKeys) : p[2] \in DOMAIN rcd[p[1]].cmdDict})

MixSlots == <<"a", "b">>

MixDevs == <<"d1", "d2">>

\* every device of the command map returns a handle that is still running
AllRunning(cmdDict) == [i \in DOMAIN cmdDict |-> [pre |-> "running", res |-> "None"]]

\* DeviceSet.startCmdDict(cmdDict, callFunc) with a command string per slot,
\* where the handles the devices return end after the call has returned
StartCmdDictRunning ==
    /\ callsLeft > 0
    /\ \E cmdDict \in CmdDicts, callFunc \in BOOLEAN :
          /\ \A i \in DOMAIN cmdDict : cmdDict[i].cmd = "str"
          /\ NHandles + Len(cmdDict) <= MaxHandles
          /\ \E order \in Orders(cmdDict) :
                Dispatch("startCmdDict", ListArg([i \in DOMAIN cmdDict |-> cmdDict[i].slot]),
                         cmdDict, callFunc, order, AllRunning(cmdDict),
                         DefaultTimeLim, DefaultTimeLim)

InitMix ==
    /\ InitRegistry(MixSlots, MixDevs)
    /\ callsLeft = MaxCalls

NextMix ==
    \/ StartCmdDictRunning
    \/ Connect
    \/ Disconnect
    \/ ReplaceDev
    \/ DevCmdDone
    \/ NewDevCmdDone
    \/ ConnDone
    \/ InitCmdDone

SpecMix == InitMix /\ [][NextMix]_vars

(***************************************************************************)
(* Properties of the mixed scenario.                                       *)
(***************************************************************************)
\* C16: after any sequence of replaceDev, connect, disconnect and dispatch
\* calls, failing ones included, slotList is the list given at construction,
\* slotList and devList have the same length, and getIndex and slotFromIndex
\* are inverse to each other.
C16_SlotsNeverChange ==
    /\ slotList = MixSlots
    /\ Len(slotList) = Len(devList)
    /\ \A i \in DOMAIN slotList : slotFromIndex(getIndex(slotList[i])) = slotList[i]
    /\ \A index \in 0..(Len(MixSlots) - 1) : getIndex(slotFromIndex(index)) = index

\* a device was removed from the first slot and then a call was refused
C16_Witness ==
    /\ callsLeft = 0
    /\ devList = <<NoDev, "d2">>
    /\ IsCall(lastOp.op) /\ lastOp.exc = "RuntimeError"

\* the slots whose commands failed in the run itself
OwnFailures(run) ==
    {slot \in RunSlotSet(run) :
        \/ slot \in DOMAIN run.devCmd /\ DidFail(run.devCmd[slot])
        \/ slot \in DOMAIN run.newDevCmd /\ DidFail(run.newDevCmd[slot])
        \/ slot \in run.raisedIn}

C21_CallFuncOncePerSlot ==
    /\ [](\A r \in DOMAIN rcd :
             /\ \A slot \in DOMAIN rcd[r].nCallFunc :
                   /\ rcd[r].nCallFunc[slot] = 1
                   /\ slot \in DOMAIN rcd[r].devCmd /\ IsDone(rcd[r].devCmd[slot])
             /\ DOMAIN rcd[r].newDevCmd \subseteq DOMAIN rcd[r].nCallFunc)
    /\ [][lastOp'.op = "newDevCmdCallback" =>
             \A r \in DOMAIN rcd :
                 /\ rcd'[r].nCallFunc = rcd[r].nCallFunc
                 /\ DOMAIN rcd'[r].newDevCmd = DOMAIN rcd[r].newDevCmd]_vars

\* the callback of a handle callFunc had returned for slot a ran
C21_Witness ==
    \E r \in DOMAIN rcd :
        /\ lastOp.op = "newDevCmdCallback" /\ lastOp.id = r
        /\ "a" \in DOMAIN rcd[r].newDevCmd /\ IsDone(rcd[r].newDevCmd["a"])
        /\ rcd[r].nCallFunc["a"] = 1

\* C22: the failed-slot set of a run only grows, and if the command of slot X
\* failed and the command callFunc chained for X succeeded, X is in the
\* failed-slot set and, once every handle is terminal, the userCmd is Failed
\* and names X.
C22_FailureIsKept ==
    /\ [][\A r \in DOMAIN rcd : rcd[r].failSlotSet \subseteq rcd'[r].failSlotSet]_vars
    /\ [](\A r \in DOMAIN rcd : \A slot \in DOMAIN rcd[r].newDevCmd :
             (DidFail(rcd[r].devCmd[slot]) /\ rcd[r].newDevCmd[slot] = "done") =>
                 /\ slot \in rcd[r].failSlotSet
                 /\ AllHandlesDone(rcd[r]) =>
                       /\ rcd[r].userCmd.state = "failed"
                       /\ slot \in Range(rcd[r].userCmd.msg))

\* C23: if the command of slot X succeeded and the command callFunc chained
\* for X failed, then once every handle is terminal the userCmd is Failed and
\* names X, whatever the order of the completions.
C23_ChainedFailureFails ==
    \A r \in DOMAIN rcd : \A slot \in DOMAIN rcd[r].newDevCmd :
        (rcd[r].devCmd[slot] = "done" /\ DidFail(rcd[r].newDevCmd[slot])
            /\ AllHandlesDone(rcd[r])) =>
                /\ rcd[r].userCmd.state = "failed"
                /\ slot \in Range(rcd[r].userCmd.msg)

(***************************************************************************)
(* Properties of overlapping replacements.                                 *)
(***************************************************************************)
\* C24: when calls of replaceDev on one slot overlap, the completion of each
\* connect installs its device in the slot and releases the device that is in
\* the slot at that moment, whatever calls were made in between: the slot's
\* occupant follows the order of the completions, and a replacement that was
\* waiting refills a slot a later replaceDev(slot, None) had emptied.
C24_CompletionOrderDecides ==
    [][\A r \in DOMAIN repl' :
          Installed(r, repl, repl') =>
              LET slot == repl'[r].slot
                  occupant == Lookup(slotDevDict, slot)
              IN /\ Lookup(slotDevDict', slot) = repl'[r].dev
                 /\ \A i \in DOMAIN slotDevDict :
                       slotDevDict[i].slot # slot => slotDevDict'[i] = slotDevDict[i]
                 /\ occupant # NoDev =>
                       \E i \in DOMAIN Logged(devLog, devLog') :
                           Logged(devLog, devLog')[i] = [dev |-> occupant, op |-> "init"]]_vars

\* replaceDev(a, d2) was waiting for its connect when replaceDev(a, None)
\* emptied the slot; then the connect ended and slot a holds d2
C24_Witness ==
    /\ Len(repl) = 2
    /\ repl[1].slot = "a" /\ repl[1].dev = "d2"
    /\ repl[2].slot = "a" /\ repl[2].dev = NoDev
    /\ lastOp.op = "initCallback" /\ lastOp.id = 1
    /\ GetItem("a") = "d2"

(***************************************************************************)
(* Properties of a run while the registry changes.                         *)
(***************************************************************************)
\* the device the run's command for the slot was issued on
IssuedTo(run, slot) ==
    LET i == CHOOSE i \in DOMAIN run.cmdDict : run.cmdDict[i].slot = slot
    IN run.issued[i].dev

CastSlots == <<"a", "b">>

CastDevs == {<<"d1", NoDev>>, <<NoDev, NoDev>>}

InitCast ==
    /\ \E dl \in CastDevs : InitRegistry(CastSlots, dl)
    /\ callsLeft = 1

NextCast ==
    \/ StartCmdDict
    \/ StartCmd
    \/ DevCmdDone
    \/ NewDevCmdDone

SpecCast == InitCast /\ [][NextCast]_vars

\* C26: a dispatch of an empty command map, and so startCmd with
\* slotList=None on a registry without a filled slot, issues no device
\* command and returns a userCmd that is Done.
C26_EmptyMapIsDone ==
    /\ (lastOp.op = "startCmd" /\ lastOp.arg.isNone /\ filledSlotList = <<>>)
          => /\ lastOp.exc = ""
             /\ rcd[lastOp.id].cmdDict = <<>>
    /\ \A r \in DOMAIN rcd :
          rcd[r].cmdDict = <<>> =>
              /\ rcd[r].issued = <<>>
              /\ \A i \in DOMAIN devLog : devLog[i].op \notin {"startCmd", "startCmdList"}
              /\ rcd[r].userCmd.state = "done" /\ rcd[r].userCmd.nSet = 1

\* startCmd(cmd, slotList=None) returned on a registry without a filled slot
C26_Witness ==
    /\ lastOp.op = "startCmd" /\ lastOp.arg.isNone /\ lastOp.exc = ""
    /\ filledSlotList = <<>>
    /\ Len(rcd) = 1 /\ rcd[1].cmdDict = <<>> /\ rcd[1].userCmd.state = "done"

(***************************************************************************)
(* ActorWrapper: the wrapper of an actor and its device wrappers.          *)
(*   deviceWrapperList  the state of each device wrapper: "starting",      *)
(*                      "ready" (isReady), "done" (isDone) or "failed"     *)
(*                      (isDone and didFail)                               *)
(*   actor              None until the actor is built, then the state of   *)
(*                      actor.server, in the same four states              *)
(*   nMakeActor         the calls of _makeActor so far                     *)
(*   nStateChanged      the calls of _stateChanged so far                  *)
(*   closeCalls         the close() calls _basicClose made, in order       *)
(***************************************************************************)
MaxWrappers == 2      \* longest deviceWrapperList
MaxEvents == 5        \* state changes and close calls after construction

WrapperStates == {"starting", "ready", "done", "failed"}

\* the truth values a Python property returns, as text
PyBool(b) == IF b THEN "True" ELSE "False"

AllWrappers(self, S) ==
    \A i \in DOMAIN self.deviceWrapperList : self.deviceWrapperList[i] \in S

\* ActorWrapper.isReady
isReady(self) ==
    IF ~AllWrappers(self, {"ready"}) THEN "False"
    ELSE IF self.actor = NoDev THEN "None"
    ELSE PyBool(self.actor = "ready")

\* ActorWrapper.isDone: "x and None" is None
isDone(self) ==
    IF ~AllWrappers(self, {"done", "failed"}) THEN "False"
    ELSE IF self.actor = NoDev THEN "None"
    ELSE PyBool(self.actor \in {"done", "failed"})

\* ActorWrapper.didFail: a false isDone is returned as it is; otherwise the
\* attribute self.deviceWrapperlist is read, which no ActorWrapper has
didFail(self) ==
    IF isDone(self) # "True" THEN isDone(self) ELSE "AttributeError"

\* _deviceWrapperStateChanged without the test of self.actor
deviceWrapperStateChanged_NoActorTest(self, srv) ==
    LET s1 == IF AllWrappers(self, {"ready"})
              THEN [self EXCEPT !.actor = srv, !.nMakeActor = @ + 1]
              ELSE self
    IN [s1 EXCEPT !.nStateChanged = @ + 1]

\* ActorWrapper._deviceWrapperStateChanged; srv is the state of the server
\* of the actor _makeActor builds
deviceWrapperStateChanged(self, srv) ==
    LET s1 == IF self.actor = NoDev /\ AllWrappers(self, {"ready"})
              THEN [self EXCEPT !.actor = srv, !.nMakeActor = @ + 1]
              ELSE self
    IN [s1 EXCEPT !.nStateChanged = @ + 1]

\* ActorWrapper.__init__
ActorWrapperInit(deviceWrapperList, srv) ==
    deviceWrapperStateChanged(
        [deviceWrapperList |-> deviceWrapperList, actor |-> NoDev,
         nMakeActor |-> 0, nStateChanged |-> 0, closeCalls |-> <<>>], srv)

\* ActorWrapper._basicClose
basicClose(self) ==
    [self EXCEPT !.closeCalls =
        @ \o (IF self.actor # NoDev THEN <<"server">> ELSE <<>>)
          \o [i \in DOMAIN self.deviceWrapperList |-> "dw"]]

(***************************************************************************)
(* The wrapper scenario: an ActorWrapper over at most MaxWrappers device   *)
(* wrappers that are starting or ready, and MaxEvents state changes of the *)
(* device wrappers and of the actor's server, and close calls.             *)
(***************************************************************************)
DeviceSetVars == <<slotDevDict, slotIndexDict, devNameSlotDict, rcd, links,
                   repl, devLog, toUsers>>

\* the state of the server of a newly built actor
NewServerStates == {"starting", "ready"}

\* a device wrapper changes state and its callback runs
DeviceWrapperStateChanged ==
    /\ callsLeft > 0
    /\ \E i \in DOMAIN aw.deviceWrapperList, new \in WrapperStates, srv \in NewServerStates :
          /\ aw.deviceWrapperList[i] \in {"starting", "ready"}
          /\ new # aw.deviceWrapperList[i]
          /\ aw' = deviceWrapperStateChanged([aw EXCEPT !.deviceWrapperList[i] = new], srv)
          /\ lastOp' = [op |-> "_deviceWrapperStateChanged", exc |-> "",
                        arg |-> NoneArg, id |-> i]
    /\ callsLeft' = callsLeft - 1
    /\ UNCHANGED DeviceSetVars

\* the server of the actor changes state and its state callback
\* _stateChanged runs
ServerStateChanged ==
    /\ callsLeft > 0
    /\ aw.actor \in {"starting", "ready"}
    /\ \E new \in WrapperStates \ {aw.actor} :
          aw' = [aw EXCEPT !.actor = new, !.nStateChanged = @ + 1]
    /\ lastOp' = [op |-> "_stateChanged", exc |-> "", arg |-> NoneArg, id |-> 0]
    /\ callsLeft' = callsLeft - 1
    /\ UNCHANGED DeviceSetVars

\* ActorWrapper._basicClose()
BasicClose ==
    /\ callsLeft > 0
    /\ aw' = basicClose(aw)
    /\ lastOp' = [op |-> "_basicClose", exc |-> "", arg |-> NoneArg, id |-> 0]
    /\ callsLeft' = callsLeft - 1
    /\ UNCHANGED DeviceSetVars

InitWrap ==
    /\ slotDevDict = <<>>
    /\ slotIndexDict = EmptyMap
    /\ devNameSlotDict = EmptyMap
    /\ devLog = <<>>
    /\ rcd = <<>>
    /\ links = <<>>
    /\ repl = <<>>
    /\ toUsers = <<>>
    /\ lastOp = NoOp
    /\ callsLeft = MaxEvents
    /\ \E dwl \in SeqsUpTo({"starting", "ready"}, MaxWrappers), srv \in NewServerStates :
          aw = ActorWrapperInit(dwl, srv)

NextWrap ==
    \/ DeviceWrapperStateChanged
    \/ ServerStateChanged
    \/ BasicClose

SpecWrap == InitWrap /\ [][NextWrap]_vars

(***************************************************************************)
(* Properties of the ActorWrapper.                                         *)
(***************************************************************************)
\* C27: _makeActor is called at most once, only when every device wrapper is
\* ready and there is no actor; the actor is None until then; later state
\* changes of device wrappers build no second actor; every state change of
\* a device wrapper is followed by one _stateChanged.
C27_ActorBuiltOnce ==
    /\ [](aw.nMakeActor <= 1 /\ (aw.nMakeActor = 0 <=> aw.actor = NoDev))
    /\ [][aw'.nMakeActor # aw.nMakeActor =>
             /\ aw.actor = NoDev
             /\ AllWrappers(aw', {"ready"})]_vars
    /\ [][aw'.deviceWrapperList # aw.deviceWrapperList =>
             aw'.nStateChanged = aw.nStateChanged + 1]_vars

\* the one device wrapper became ready (the actor was built), left ready and
\* became ready again
C27_Witness ==
    /\ lastOp.op = "_deviceWrapperStateChanged"
    /\ aw.deviceWrapperList = <<"ready">>
    /\ aw.actor = "starting"
    /\ aw.nStateChanged = 4
    /\ aw.nMakeActor = 1

\* C28: didFail is True iff isDone holds and a device wrapper or the server
\* of the actor reports a failure, and where isDone holds it returns a value.
C28_DidFailReturns ==
    /\ isDone(aw) = "True" =>
          didFail(aw) = PyBool(aw.actor = "failed" \/
                               \E i \in DOMAIN aw.deviceWrapperList :
                                   aw.deviceWrapperList[i] = "failed")
    /\ isDone(aw) # "True" => didFail(aw) # "True"

====
